---- MODULE Spec2Model ----
(***************************************************************************)
(* Model of pyirc's ServerCapabilities (src/pyirc/server_capabilities.py): *)
(* the store of RPL_ISUPPORT capabilities, one validating property per     *)
(* capability.                                                             *)
(*                                                                         *)
(* A Python string is modelled as a sequence of one-character strings, so  *)
(* that split, strip, int() and the '%s:%d' formatting are computed the    *)
(* way the code computes them.  Only CASEMAPPING values, which the code    *)
(* compares as whole literals, are kept as atomic strings.                 *)
(*                                                                         *)
(* The module is Python 2 code (dict.iteritems, line 115) and is modelled  *)
(* with Python 2 semantics.                                                *)
(***************************************************************************)
EXTENDS Integers, Sequences, FiniteSets, TLC

----------------------------------------------------------------------------
(* Python values *)

\* the attribute is missing from the instance __dict__: reads fall through
\* to the class attribute
Absent == [tag |-> "absent"]
None == [tag |-> "None"]
Val(x) == [tag |-> "val", v |-> x]

\* outcomes of a property assignment
OK == "ok"
CapabilityValueError == "FormatError"
CapabilityLogicError == "LogicError"
NotImplementedError == "UnsupportedError"

CHANMODE_LIST == 0
CHANMODE_PARAM_ALWAYS == 1
CHANMODE_PARAM_ADDONLY == 2
CHANMODE_NO_PARAM == 3

----------------------------------------------------------------------------
(* String primitives *)

Whitespace == {" "}
DigitChars == <<"0", "1", "2", "3", "4", "5", "6", "7", "8", "9">>
IsDigit(c) == \E i \in 1..10 : DigitChars[i] = c
DigitVal(c) == (CHOOSE i \in 1..10 : DigitChars[i] = c) - 1

\* str.strip(): drop leading and trailing whitespace
RECURSIVE Strip(_)
Strip(s) ==
    IF s = <<>> THEN s
    ELSE IF Head(s) \in Whitespace THEN Strip(Tail(s))
    ELSE IF s[Len(s)] \in Whitespace THEN Strip(SubSeq(s, 1, Len(s) - 1))
    ELSE s

\* str.split(sep): always at least one piece, '' splits into ['']
RECURSIVE Split(_, _)
Split(s, sep) ==
    IF \A i \in 1..Len(s) : s[i] # sep THEN <<s>>
    ELSE LET i == CHOOSE k \in 1..Len(s) :
                      s[k] = sep /\ \A j \in 1..(k - 1) : s[j] # sep
         IN  <<SubSeq(s, 1, i - 1)>> \o Split(SubSeq(s, i + 1, Len(s)), sep)

\* sep.join(pieces)
RECURSIVE Join(_, _)
Join(pieces, sep) ==
    IF pieces = <<>> THEN <<>>
    ELSE IF Len(pieces) = 1 THEN pieces[1]
    ELSE pieces[1] \o <<sep>> \o Join(Tail(pieces), sep)

\* frozenset(iter(s)): the set of characters of s
CharSet(s) == {s[i] : i \in 1..Len(s)}

\* value of a non-empty run of decimal digits
RECURSIVE DigitsVal(_)
DigitsVal(ds) ==
    IF Len(ds) = 1 THEN DigitVal(ds[1])
    ELSE 10 * DigitsVal(SubSeq(ds, 1, Len(ds) - 1)) + DigitVal(ds[Len(ds)])

\* int(s): surrounding whitespace and one sign are accepted, then at least
\* one digit and nothing else; anything else is a ValueError
ParseInt(s) ==
    LET t      == Strip(s)
        signed == t # <<>> /\ t[1] \in {"+", "-"}
        ds     == IF signed THEN Tail(t) ELSE t
        good   == ds # <<>> /\ \A i \in 1..Len(ds) : IsDigit(ds[i])
        mag    == IF good THEN DigitsVal(ds) ELSE 0
    IN  [ok  |-> good,
         val |-> IF signed /\ t[1] = "-" THEN 0 - mag ELSE mag]

\* '%d' % n
RECURSIVE FmtNat(_)
FmtNat(n) ==
    IF n < 10 THEN <<DigitChars[n + 1]>>
    ELSE FmtNat(n \div 10) \o <<DigitChars[(n % 10) + 1]>>

FmtInt(n) == IF n < 0 THEN <<"-">> \o FmtNat(0 - n) ELSE FmtNat(n)

\* the elements of a set in the order an iteration yields them
RECURSIVE IterOrder(_)
IterOrder(S) ==
    IF S = {} THEN <<>>
    ELSE LET x == CHOOSE y \in S : TRUE
         IN  <<x>> \o IterOrder(S \ {x})

\* dict(pairs): a later pair replaces an earlier one with the same key
RECURSIVE DictOf(_)
DictOf(pairs) ==
    IF pairs = <<>> THEN <<>>
    ELSE LET n    == Len(pairs)
             rest == DictOf(SubSeq(pairs, 1, n - 1))
             k    == pairs[n][1]
         IN  [x \in (DOMAIN rest) \cup {k} |->
                 IF x = k THEN pairs[n][2] ELSE rest[x]]

----------------------------------------------------------------------------
(* The instance and its class attributes *)

Fields == {"casemapping", "chanlimit", "chanmodes", "channellen",
           "chantypes", "excepts", "invex", "kicklen", "maxlist"}

\* variant: _channellen = None, as for _kicklen
ClassAttr_noChannellen ==
    [casemapping |-> Val("ascii"),
     chanlimit   |-> None,
     chanmodes   |-> None,
     channellen  |-> None,
     chantypes   |-> Val({"#", "&"}),
     excepts     |-> None,
     invex       |-> None,
     kicklen     |-> None,
     maxlist     |-> None]

\* class-level attributes of ServerCapabilities: what a property reads while
\* the instance has no attribute of its own
ClassAttr ==
    [casemapping |-> Val("ascii"),
     chanlimit   |-> None,
     chanmodes   |-> None,
     channellen  |-> Val(200),
     chantypes   |-> Val({"#", "&"}),
     excepts     |-> None,
     invex       |-> None,
     kicklen     |-> None,
     maxlist     |-> None]

\* default_fget: getattr(self, private_var)
Get(self, name) == IF self[name] = Absent THEN ClassAttr[name] ELSE self[name]

\* the store as its accessors report it
View(self) == [f \in Fields |-> Get(self, f)]

Ret(self, r) == [self |-> self, result |-> r]

\* truth value of a non-None string
StrTruthy(x) == x # None /\ x.v # <<>>
\* truth value of a dict or None
DictTruthy(x) == x # None /\ DOMAIN x.v # {}

\* c in S for a string c and a frozenset S of one-character strings
StrIn(c, S) == \E m \in S : <<m>> = c

----------------------------------------------------------------------------
(* CASEMAPPING *)

\* variant: the unimplemented casemappings are taken for ascii
casemapping_fset_coerce(self, v) ==
    IF v \notin {"ascii", "rfc1459", "strict-rfc1459"}
    THEN Ret(self, CapabilityValueError)
    ELSE Ret([self EXCEPT !.casemapping = Val("ascii")], OK)

casemapping_fset(self, v) ==
    IF v \notin {"ascii", "rfc1459", "strict-rfc1459"}
    THEN Ret(self, CapabilityValueError)
    ELSE IF v # "ascii"
    THEN Ret(self, NotImplementedError)
    ELSE Ret([self EXCEPT !.casemapping = Val(v)], OK)

----------------------------------------------------------------------------
(* CHANLIMIT and MAXLIST entry lists *)

\* [l.strip().split(':') for l in v.strip().split(',')]
ChanlimitEntries(v) ==
    LET ls == Split(Strip(v), ",")
    IN  [i \in 1..Len(ls) |-> Split(Strip(ls[i]), ":")]

\* [l.split(':') for l in v.split(',')]
MaxlistEntries(v) ==
    LET ls == Split(v, ",")
    IN  [i \in 1..Len(ls) |-> Split(ls[i], ":")]

\* dict((frozenset(pfx), int(num)) for pfx,num in entries) completes without
\* ValueError: every entry unpacks into two pieces and every count converts
EntriesParse(entries) ==
    \A i \in 1..Len(entries) :
        Len(entries[i]) = 2 /\ ParseInt(entries[i][2]).ok

EntriesDict(entries) ==
    DictOf([i \in 1..Len(entries) |->
               <<CharSet(entries[i][1]), ParseInt(entries[i][2]).val>>])

\* variant: a prefix set passes when it merely overlaps CHANTYPES
PrefixesDefined_overlap(limits, chantypes) ==
    \A prefixes \in DOMAIN limits : prefixes \cap chantypes # {}

\* for prefixes in limits.keys(): prefixes.issubset(chantypes)
PrefixesDefined(limits, chantypes) ==
    \A prefixes \in DOMAIN limits : prefixes \subseteq chantypes

\* variant: the prefixes are checked against the class default CHANTYPES
chanlimit_fset_classTypes(self, v) ==
    LET entries == ChanlimitEntries(v)
    IN  IF ~EntriesParse(entries) \/ DOMAIN EntriesDict(entries) = {}
        THEN Ret(self, CapabilityValueError)
        ELSE LET limits == EntriesDict(entries)
             IN  IF ~PrefixesDefined(limits, {"#", "&"})
                 THEN Ret(self, CapabilityLogicError)
                 ELSE Ret([self EXCEPT !.chanlimit = Val(limits)], OK)

chanlimit_fset(self, v) ==
    LET entries == ChanlimitEntries(v)
    IN  IF ~EntriesParse(entries) \/ DOMAIN EntriesDict(entries) = {}
        THEN Ret(self, CapabilityValueError)
        ELSE LET limits    == EntriesDict(entries)
                 chantypes == Get(self, "chantypes").v
             IN  IF ~PrefixesDefined(limits, chantypes)
                 THEN Ret(self, CapabilityLogicError)
                 ELSE Ret([self EXCEPT !.chanlimit = Val(limits)], OK)

----------------------------------------------------------------------------
(* CHANTYPES *)

\* variant: the test is prefixes.issubset(types)
KeyInTypes_subset(prefixes, types) == prefixes \subseteq types

\* prefixes in types, for a frozenset prefixes and a frozenset types of
\* one-character strings: no member of types is a frozenset, so the test
\* compares a frozenset with strings and finds no equal member
KeyInTypes(prefixes, types) == \E t \in types : FALSE

\* for prefixes in chanlimit.keys(): if prefixes not in types: raise
ChanlimitStillValid(chanlimit, types) ==
    \A prefixes \in DOMAIN chanlimit : KeyInTypes(prefixes, types)

\* variant: CHANLIMIT is not looked at
chantypes_fset_unchecked(self, v) ==
    Ret([self EXCEPT !.chantypes = Val(CharSet(v))], OK)

chantypes_fset(self, v) ==
    LET types     == CharSet(v)
        chanlimit == Get(self, "chanlimit")
    IN  IF DictTruthy(chanlimit) /\ ~ChanlimitStillValid(chanlimit.v, types)
        THEN Ret(self, CapabilityLogicError)
        ELSE Ret([self EXCEPT !.chantypes = Val(types)], OK)

----------------------------------------------------------------------------
(* CHANNELLEN and KICKLEN *)

\* v = v or None; int(v) unless None
ParseLen(v) ==
    IF v = <<>> THEN [ok |-> TRUE, val |-> None]
    ELSE [ok |-> ParseInt(v).ok, val |-> Val(ParseInt(v).val)]

channellen_fset(self, v) ==
    IF ~ParseLen(v).ok THEN Ret(self, CapabilityValueError)
    ELSE Ret([self EXCEPT !.channellen = ParseLen(v).val], OK)

kicklen_fset(self, v) ==
    IF ~ParseLen(v).ok THEN Ret(self, CapabilityValueError)
    ELSE Ret([self EXCEPT !.kicklen = ParseLen(v).val], OK)

----------------------------------------------------------------------------
(* EXCEPTS and INVEX *)

\* variant: the membership test is inverted
NotListFlag_inverted(chanmodes, v) ==
    chanmodes # None /\ StrIn(v, chanmodes.v[CHANMODE_LIST])

\* variant: the flag is refused while CHANMODES is unset
NotListFlag_undeferred(chanmodes, v) ==
    chanmodes = None \/ ~StrIn(v, chanmodes.v[CHANMODE_LIST])

\* chanmodes and v not in chanmodes[CHANMODE_LIST]
NotListFlag(chanmodes, v) ==
    chanmodes # None /\ ~StrIn(v, chanmodes.v[CHANMODE_LIST])

\* variant: the flag is stored before it is checked against CHANMODES
excepts_fset_storeFirst(self, raw) ==
    LET v == IF raw = <<>> THEN <<"e">> ELSE raw
    IN  IF Len(v) # 1 THEN Ret(self, CapabilityValueError)
        ELSE IF NotListFlag(Get(self, "chanmodes"), v)
        THEN Ret([self EXCEPT !.excepts = Val(v)], CapabilityLogicError)
        ELSE Ret([self EXCEPT !.excepts = Val(v)], OK)

excepts_fset(self, raw) ==
    LET v == IF raw = <<>> THEN <<"e">> ELSE raw
    IN  IF Len(v) # 1 THEN Ret(self, CapabilityValueError)
        ELSE IF NotListFlag(Get(self, "chanmodes"), v)
        THEN Ret(self, CapabilityLogicError)
        ELSE Ret([self EXCEPT !.excepts = Val(v)], OK)

\* variant: an empty INVEX takes the EXCEPTS default 'e'
invex_fset_defaultE(self, raw) ==
    LET v == IF raw = <<>> THEN <<"e">> ELSE raw
    IN  IF Len(v) # 1 THEN Ret(self, CapabilityValueError)
        ELSE IF NotListFlag(Get(self, "chanmodes"), v)
        THEN Ret(self, CapabilityLogicError)
        ELSE Ret([self EXCEPT !.invex = Val(v)], OK)

invex_fset(self, raw) ==
    LET v == IF raw = <<>> THEN <<"I">> ELSE raw
    IN  IF Len(v) # 1 THEN Ret(self, CapabilityValueError)
        ELSE IF NotListFlag(Get(self, "chanmodes"), v)
        THEN Ret(self, CapabilityLogicError)
        ELSE Ret([self EXCEPT !.invex = Val(v)], OK)

----------------------------------------------------------------------------
(* MAXLIST *)

\* variant: max = set(flags), keeping the flags of one key only
FlagsCovered_oneKey(d) == CHOOSE flags \in DOMAIN d : TRUE

\* max = set(); for flags in v.keys(): max.update(flags)
FlagsCovered(d) == UNION (DOMAIN d)

\* variant: MAXLIST only has to stay within the list modes
MaxlistMismatch_subset(chanmodes, d) ==
    chanmodes # None /\ ~(FlagsCovered(d) \subseteq chanmodes.v[CHANMODE_LIST])

\* chanmodes and max != chanmodes[CHANMODE_LIST]
MaxlistMismatch(chanmodes, d) ==
    chanmodes # None /\ FlagsCovered(d) # chanmodes.v[CHANMODE_LIST]

maxlist_fset(self, v) ==
    IF v = <<>> THEN Ret(self, CapabilityValueError)
    ELSE LET entries == MaxlistEntries(v)
         IN  IF ~EntriesParse(entries)
             THEN Ret(self, CapabilityValueError)
             ELSE LET d == EntriesDict(entries)
                  IN  IF MaxlistMismatch(Get(self, "chanmodes"), d)
                      THEN Ret(self, CapabilityLogicError)
                      ELSE Ret([self EXCEPT !.maxlist = Val(d)], OK)

----------------------------------------------------------------------------
(* CHANMODES *)

\* ','.join('%s:%d' % (''.join(k), v) for k,v in self.maxlist.iteritems())
MaxlistToken(d) ==
    LET ks == IterOrder(DOMAIN d)
    IN  Join([i \in 1..Len(ks) |->
                 IterOrder(ks[i]) \o <<":">> \o FmtInt(d[ks[i]])], ",")

\* variant: v.strip().split(','), without the slice
ChanmodesGroups_unsliced(v) == Split(Strip(v), ",")

\* v.strip().split(',')[:4]
ChanmodesGroups(v) ==
    LET gs == Split(Strip(v), ",")
    IN  IF Len(gs) > 4 THEN SubSeq(gs, 1, 4) ELSE gs

\* dict(enumerate(frozenset(iter(x)) for x in v))
ChanmodesDict(gs) == [i \in 0..(Len(gs) - 1) |-> CharSet(gs[i + 1])]

\* if self.excepts: self.excepts = self.excepts
RecheckExcepts(self) ==
    IF StrTruthy(Get(self, "excepts"))
    THEN excepts_fset(self, Get(self, "excepts").v)
    ELSE Ret(self, OK)

\* variant: if self.invex: self.invex = self.excepts
RecheckInvex_copied(self) ==
    IF StrTruthy(Get(self, "invex")) /\ StrTruthy(Get(self, "excepts"))
    THEN invex_fset(self, Get(self, "excepts").v)
    ELSE Ret(self, OK)

\* if self.invex: self.invex = self.invex
RecheckInvex(self) ==
    IF StrTruthy(Get(self, "invex"))
    THEN invex_fset(self, Get(self, "invex").v)
    ELSE Ret(self, OK)

\* if self.maxlist: self.maxlist = <the re-serialised mapping>
RecheckMaxlist(self) ==
    IF DictTruthy(Get(self, "maxlist"))
    THEN maxlist_fset(self, MaxlistToken(Get(self, "maxlist").v))
    ELSE Ret(self, OK)

\* the body of the try block: the three re-assignments in order, stopping at
\* the first one that raises
RecheckDependents(self) ==
    LET r1 == RecheckExcepts(self)
    IN  IF r1.result # OK THEN r1
        ELSE LET r2 == RecheckInvex(r1.self)
             IN  IF r2.result # OK THEN r2
                 ELSE RecheckMaxlist(r2.self)

\* variant: the handler re-raises without restoring _chanmodes
Rollback_forgotten(r, oldmodes) == r

\* except CapabilityLogicError: self._chanmodes = oldmodes; raise
\* (any other exception leaves the try block without the handler running)
Rollback(r, oldmodes) ==
    IF r.result = CapabilityLogicError
    THEN Ret([r.self EXCEPT !.chanmodes = oldmodes], r.result)
    ELSE r

chanmodes_fset(self, v) ==
    LET gs == ChanmodesGroups(v)
    IN  IF Len(gs) # 4 THEN Ret(self, CapabilityValueError)
        ELSE LET oldmodes == Get(self, "chanmodes")
                 tent     == [self EXCEPT !.chanmodes = Val(ChanmodesDict(gs))]
             IN  Rollback(RecheckDependents(tent), oldmodes)

----------------------------------------------------------------------------
(* Raw values the caller assigns *)

\* longest raw value tried for EXCEPTS and INVEX
MaxFlagLen == 2
\* most comma-separated groups in a raw CHANMODES value
MaxGroups == 5

\* all strings over alphabet of length at most n
RECURSIVE StringsUpTo(_, _)
StringsUpTo(alphabet, n) ==
    IF n = 0 THEN {<<>>}
    ELSE LET shorter == StringsUpTo(alphabet, n - 1)
         IN  shorter \cup {<<c>> \o s : c \in alphabet,
                                        s \in {t \in shorter : Len(t) = n - 1}}

\* A run draws its raw values from one vocabulary: each vocabulary is rich
\* in the values of one group of related capabilities and has a value or two
\* for each of the others.
Vocabularies == {"modes", "prefixes", "lengths", "mixed"}

\* the list group (type A flags) of a raw CHANMODES value
ListGroupRaws == {<<>>, <<"a">>, <<"e">>, <<"e", "I">>}
\* the groups that follow it
OtherGroups == <<<<"b">>, <<"c">>, <<"d">>, <<"x">>, <<"y">>, <<"z">>>>

ChanmodesRich ==
    {Join(<<g>> \o SubSeq(OtherGroups, 1, n - 1), ",") :
        g \in ListGroupRaws, n \in 3..MaxGroups}
    \cup {<<" ", "a", ",", "b", ",", "c", ",", "d", " ">>}

ChanmodesFew ==
    {<<"e", "I", ",", "b", ",", "c", ",", "d">>,
     <<"a", ",", "b", ",", "c", ",", "d">>,
     <<"e", ",", "b", ",", "c">>}

ExceptsRich == StringsUpTo({"a", "e"}, MaxFlagLen)
ExceptsFew == {<<>>, <<"e", "a">>}

InvexRich == StringsUpTo({"a", "I"}, MaxFlagLen)
InvexFew == {<<>>, <<"I", "a">>}

MaxlistRich ==
    {<<>>,
     <<"e", ":", "1">>,
     <<"e", ":", "-", "1">>,
     <<"e", "I", ":", "2">>,
     <<"e", ":", "1", ",", "I", ":", "2">>,
     <<"a", ":", "3", "0">>,
     <<":", "4">>,
     <<"a">>,
     <<"e", ":", "x">>}
MaxlistFew == {<<>>, <<"e", "I", ":", "2">>}

ChantypesRich == {<<>>, <<"#">>, <<"#", "x">>, <<"#", "&">>}
ChantypesFew == {<<"#">>}

ChanlimitRich ==
    {<<>>,
     <<"#", ":", "1">>,
     <<"x", ":", "2">>,
     <<"#", "&", ":", "3">>,
     <<" ", "#", ":", "1", " ", ",", " ", "&", ":", "2", " ">>,
     <<"#", ":", "1", ",", "#", ":", "2">>,
     <<"#", ":", "0">>,
     <<"#", ":", "x">>,
     <<"#">>}
ChanlimitFew == {<<>>, <<"#", ":", "1">>}

CasemappingRich == {"ascii", "rfc1459", "strict-rfc1459", "utf-8", "ASCII"}
CasemappingFew == {"ascii", "rfc1459"}

ChannellenRich ==
    {<<>>, <<"7">>, <<"-", "7">>, <<" ", "1", "2", " ">>, <<"2", "0", "0">>,
     <<"x">>}
ChannellenFew == {<<"7">>, <<"x">>}

KicklenRich == {<<>>, <<"0">>, <<"+", "5">>, <<"7", "x">>, <<"-">>}
KicklenFew == {<<>>, <<"7", "x">>}

\* the raw values of capability name in vocabulary voc; outside its own
\* group a capability is only given values that it rejects, except in the
\* mixed vocabulary (and CHANTYPES, which rejects nothing by itself)
Raws(voc, name) ==
    CASE name = "chanmodes" ->
           IF voc = "modes" THEN ChanmodesRich
           ELSE IF voc = "mixed" THEN ChanmodesFew
           ELSE {<<"e", ",", "b", ",", "c">>}
      [] name = "excepts" ->
           IF voc = "modes" THEN ExceptsRich
           ELSE IF voc = "mixed" THEN ExceptsFew
           ELSE {<<"e", "a">>}
      [] name = "invex" ->
           IF voc = "modes" THEN InvexRich
           ELSE IF voc = "mixed" THEN InvexFew
           ELSE {<<"I", "a">>}
      [] name = "maxlist" ->
           IF voc = "modes" THEN MaxlistRich
           ELSE IF voc = "mixed" THEN MaxlistFew
           ELSE {<<>>}
      [] name = "chantypes" ->
           IF voc = "prefixes" THEN ChantypesRich ELSE ChantypesFew
      [] name = "chanlimit" ->
           IF voc = "prefixes" THEN ChanlimitRich
           ELSE IF voc = "mixed" THEN ChanlimitFew
           ELSE {<<>>}
      [] name = "casemapping" ->
           IF voc = "lengths" THEN CasemappingRich
           ELSE IF voc = "mixed" THEN CasemappingFew
           ELSE {"utf-8"}
      [] name = "channellen" ->
           IF voc = "lengths" THEN ChannellenRich
           ELSE IF voc = "mixed" THEN ChannellenFew
           ELSE {<<"x">>}
      [] name = "kicklen" ->
           IF voc = "lengths" THEN KicklenRich
           ELSE IF voc = "mixed" THEN KicklenFew
           ELSE {<<"7", "x">>}

----------------------------------------------------------------------------
(* The state machine: one ServerCapabilities instance and its caller *)

VARIABLES
    caps,     \* the instance __dict__: Absent, None or Val per capability
    op,       \* the capability last assigned ("new" before the first call)
    arg,      \* the raw value it was assigned
    result,   \* how that assignment ended
    vocab,    \* the vocabulary this run draws raw values from
    script,   \* the tokens a scripted caller replays, and how far it got
    frame,    \* the chanmodes.fset activation a second thread can interleave with
    seen      \* what a reader thread got from caps.chanmodes since that call began

vars == <<caps, op, arg, result, vocab, script, frame, seen>>

\* the caller of Spec follows no script
NoScript == [tokens |-> <<>>, done |-> 0, ok |-> TRUE]

\* no chanmodes.fset is in progress; oldmodes is its local of line 104
NoFrame == [pc |-> "idle", oldmodes |-> None]

Init ==
    /\ caps = [f \in Fields |-> Absent]
    /\ op = "new"
    /\ arg = <<>>
    /\ result = OK
    /\ vocab \in Vocabularies
    /\ script = NoScript
    /\ frame = NoFrame
    /\ seen = {}

\* one property assignment by the caller, with what came of it
Call(name, v, r) ==
    /\ caps' = r.self
    /\ op' = name
    /\ arg' = v
    /\ result' = r.result
    /\ UNCHANGED <<vocab, script, frame, seen>>

SetCasemapping ==
    \E v \in Raws(vocab, "casemapping") :
        Call("casemapping", v, casemapping_fset(caps, v))

SetChanlimit ==
    \E v \in Raws(vocab, "chanlimit") :
        Call("chanlimit", v, chanlimit_fset(caps, v))

SetChanmodes ==
    \E v \in Raws(vocab, "chanmodes") :
        Call("chanmodes", v, chanmodes_fset(caps, v))

SetChannellen ==
    \E v \in Raws(vocab, "channellen") :
        Call("channellen", v, channellen_fset(caps, v))

SetChantypes ==
    \E v \in Raws(vocab, "chantypes") :
        Call("chantypes", v, chantypes_fset(caps, v))

SetExcepts ==
    \E v \in Raws(vocab, "excepts") :
        Call("excepts", v, excepts_fset(caps, v))

SetInvex ==
    \E v \in Raws(vocab, "invex") :
        Call("invex", v, invex_fset(caps, v))

SetKicklen ==
    \E v \in Raws(vocab, "kicklen") :
        Call("kicklen", v, kicklen_fset(caps, v))

SetMaxlist ==
    \E v \in Raws(vocab, "maxlist") :
        Call("maxlist", v, maxlist_fset(caps, v))

Next ==
    \/ SetCasemapping
    \/ SetChanlimit
    \/ SetChanmodes
    \/ SetChannellen
    \/ SetChantypes
    \/ SetExcepts
    \/ SetInvex
    \/ SetKicklen
    \/ SetMaxlist

Spec == Init /\ [][Next]_vars

-----------------------------------------------------------------------------
(* Deleting: del caps.<name> for the properties that have an fdel *)

\* what delattr raises when the instance has no such attribute
AttributeError == "AttributeError"

\* default_fdel: delattr(self, private_var); the class attribute is not
\* reachable through the instance's delattr
default_fdel(self, name) ==
    IF self[name] = Absent
    THEN Ret(self, AttributeError)
    ELSE Ret([self EXCEPT ![name] = Absent], OK)

\* casemapping's own fdel: del self._casemapping
casemapping_fdel(self) ==
    IF self.casemapping = Absent
    THEN Ret(self, AttributeError)
    ELSE Ret([self EXCEPT !.casemapping = Absent], OK)

\* the properties registered with withdel=True
Resettable == {"channellen", "chantypes", "excepts", "invex"}

\* the name a delete is recorded under in op
DelOp ==
    [casemapping |-> "del casemapping",
     channellen  |-> "del channellen",
     chantypes   |-> "del chantypes",
     excepts     |-> "del excepts",
     invex       |-> "del invex"]

\* only the unscripted caller deletes
DelCasemapping ==
    /\ script = NoScript
    /\ Call(DelOp["casemapping"], <<>>, casemapping_fdel(caps))

DelChannellen ==
    /\ script = NoScript
    /\ Call(DelOp["channellen"], <<>>, default_fdel(caps, "channellen"))

DelChantypes ==
    /\ script = NoScript
    /\ Call(DelOp["chantypes"], <<>>, default_fdel(caps, "chantypes"))

DelExcepts ==
    /\ script = NoScript
    /\ Call(DelOp["excepts"], <<>>, default_fdel(caps, "excepts"))

DelInvex ==
    /\ script = NoScript
    /\ Call(DelOp["invex"], <<>>, default_fdel(caps, "invex"))

NextDel ==
    \/ Next
    \/ DelCasemapping
    \/ DelChannellen
    \/ DelChantypes
    \/ DelExcepts
    \/ DelInvex

SpecDel == Init /\ [][NextDel]_vars

-----------------------------------------------------------------------------
(* Two threads: chanmodes.fset statement by statement, and a reader *)

\* result while the assignment has not returned or raised yet
Running == "running"

InitThreads ==
    /\ caps = [f \in Fields |-> Absent]
    /\ op = "new"
    /\ arg = <<>>
    /\ result = OK
    /\ vocab = "modes"
    /\ script = NoScript
    /\ frame = NoFrame
    /\ seen = {}

\* lines 98-105: parse; raise on a wrong group count, else save oldmodes and
\* assign the new mapping to _chanmodes
BeginChanmodes ==
    /\ frame.pc = "idle"
    /\ \E v \in Raws(vocab, "chanmodes") :
          LET gs == ChanmodesGroups(v)
          IN  /\ op' = "chanmodes"
              /\ arg' = v
              /\ seen' = {}
              /\ IF Len(gs) # 4
                 THEN /\ caps' = caps
                      /\ result' = CapabilityValueError
                      /\ frame' = [pc |-> "idle",
                                   oldmodes |-> Get(caps, "chanmodes")]
                 ELSE /\ caps' = [caps EXCEPT
                                    !.chanmodes = Val(ChanmodesDict(gs))]
                      /\ result' = Running
                      /\ frame' = [pc |-> "recheck",
                                   oldmodes |-> Get(caps, "chanmodes")]
    /\ UNCHANGED <<vocab, script>>

\* lines 108-115: the try block; a CapabilityLogicError enters the handler,
\* anything else ends the call
RecheckChanmodes ==
    /\ frame.pc = "recheck"
    /\ LET r == RecheckDependents(caps)
       IN  /\ caps' = r.self
           /\ IF r.result = CapabilityLogicError
              THEN /\ frame' = [frame EXCEPT !.pc = "handler"]
                   /\ result' = Running
              ELSE /\ frame' = [frame EXCEPT !.pc = "idle"]
                   /\ result' = r.result
    /\ UNCHANGED <<op, arg, vocab, script, seen>>

\* lines 116-118: the handler restores oldmodes and re-raises
HandleChanmodes ==
    /\ frame.pc = "handler"
    /\ LET r == Rollback(Ret(caps, CapabilityLogicError), frame.oldmodes)
       IN  /\ caps' = r.self
           /\ result' = r.result
    /\ frame' = [frame EXCEPT !.pc = "idle"]
    /\ UNCHANGED <<op, arg, vocab, script, seen>>

\* the reader thread evaluates caps.chanmodes (default_fget); nothing in the
\* class keeps it from running between any two statements of the writer
ReadChanmodes ==
    /\ seen' = seen \cup {Get(caps, "chanmodes")}
    /\ UNCHANGED <<caps, op, arg, result, vocab, script, frame>>

\* between calls of chanmodes.fset the writer assigns the dependents
SetDependent ==
    /\ frame.pc = "idle"
    /\ \/ SetExcepts
       \/ SetInvex
       \/ SetMaxlist

NextThreads ==
    \/ BeginChanmodes
    \/ RecheckChanmodes
    \/ HandleChanmodes
    \/ ReadChanmodes
    \/ SetDependent

SpecThreads == InitThreads /\ [][NextThreads]_vars

----------------------------------------------------------------------------
(* A scripted caller: one advertisement, replayed token by token *)

\* most tokens in one script
MaxTokens == 3

\* self.<name> = v
Assign(self, name, v) ==
    CASE name = "casemapping" -> casemapping_fset(self, v)
      [] name = "chanlimit"   -> chanlimit_fset(self, v)
      [] name = "chanmodes"   -> chanmodes_fset(self, v)
      [] name = "channellen"  -> channellen_fset(self, v)
      [] name = "chantypes"   -> chantypes_fset(self, v)
      [] name = "excepts"     -> excepts_fset(self, v)
      [] name = "invex"       -> invex_fset(self, v)
      [] name = "kicklen"     -> kicklen_fset(self, v)
      [] name = "maxlist"     -> maxlist_fset(self, v)

Token(name, v) == [name |-> name, v |-> v]

ScriptTokens ==
    {Token("chantypes", <<"#">>),
     Token("chantypes", <<"#", "x">>),
     Token("chanlimit", <<"#", ":", "1">>),
     Token("chanlimit", <<"x", ":", "2">>),
     Token("chanmodes", <<"e", "I", ",", "b", ",", "c", ",", "d">>),
     Token("chanmodes", <<"a", ",", "b", ",", "c", ",", "d">>),
     Token("excepts", <<>>),
     Token("excepts", <<"a">>),
     Token("invex", <<>>),
     Token("invex", <<"a">>),
     Token("maxlist", <<"e", "I", ":", "2">>),
     Token("maxlist", <<"a", ":", "3", "0">>),
     Token("channellen", <<"7">>),
     Token("kicklen", <<>>)}

\* the scripts: 2 to MaxTokens tokens, no capability twice
RECURSIVE ScriptsOfLen(_)
ScriptsOfLen(n) ==
    IF n = 0 THEN {<<>>}
    ELSE {Append(t, k) : t \in ScriptsOfLen(n - 1), k \in ScriptTokens}

Scripts ==
    {t \in UNION {ScriptsOfLen(n) : n \in 2..MaxTokens} :
        \A i, j \in 1..Len(t) : i # j => t[i].name # t[j].name}

\* a fresh instance after the tokens of t were assigned in order
RECURSIVE Replay(_)
Replay(t) ==
    IF t = <<>> THEN [self |-> [f \in Fields |-> Absent], ok |-> TRUE]
    ELSE LET before == Replay(SubSeq(t, 1, Len(t) - 1))
             last   == t[Len(t)]
             r      == Assign(before.self, last.name, last.v)
         IN  [self |-> r.self, ok |-> before.ok /\ r.result = OK]

\* the orders of n tokens
Orders(n) ==
    {p \in [1..n -> 1..n] : \A i, j \in 1..n : i # j => p[i] # p[j]}

Reordered(t, p) == [i \in 1..Len(t) |-> t[p[i]]]

InitScript ==
    /\ caps = [f \in Fields |-> Absent]
    /\ op = "new"
    /\ arg = <<>>
    /\ result = OK
    /\ vocab = "script"
    /\ script \in {[tokens |-> t, done |-> 0, ok |-> TRUE] : t \in Scripts}
    /\ frame = NoFrame
    /\ seen = {}

\* the caller assigns the next token of its script
StepScript ==
    /\ script.done < Len(script.tokens)
    /\ LET tok == script.tokens[script.done + 1]
           r   == Assign(caps, tok.name, tok.v)
       IN  /\ caps' = r.self
           /\ op' = tok.name
           /\ arg' = tok.v
           /\ result' = r.result
           /\ script' = [script EXCEPT !.done = @ + 1,
                                       !.ok = @ /\ r.result = OK]
    /\ UNCHANGED <<vocab, frame, seen>>

NextScript == StepScript

SpecScript == InitScript /\ [][NextScript]_vars

----------------------------------------------------------------------------
(* Properties of sequences of assignments *)

\* a raw CHANMODES value that gets past the group count check
ChanmodesParses(v) == Len(ChanmodesGroups(v)) = 4

\* some capability that is already set contradicts the mode groups modes
DependentBroken(self, modes) ==
    \/ /\ Get(self, "excepts") # None
       /\ ~StrIn(Get(self, "excepts").v, modes[CHANMODE_LIST])
    \/ /\ Get(self, "invex") # None
       /\ ~StrIn(Get(self, "invex").v, modes[CHANMODE_LIST])
    \/ /\ Get(self, "maxlist") # None
       /\ UNION (DOMAIN Get(self, "maxlist").v) # modes[CHANMODE_LIST]

\* C1: when an assignment to CHANMODES parses but EXCEPTS, INVEX or MAXLIST,
\* already set, contradicts the new groups, the assignment ends in a logic
\* error and every capability, CHANMODES included, reads as before the call.
C1_ChanmodesRollback ==
    [][( /\ op' = "chanmodes"
         /\ ChanmodesParses(arg')
         /\ DependentBroken(caps, ChanmodesDict(ChanmodesGroups(arg'))) )
       => /\ result' = CapabilityLogicError
          /\ View(caps') = View(caps)]_vars

\* a rejected CHANMODES while an earlier CHANMODES value and EXCEPTS are held
C1_Witness ==
    /\ op = "chanmodes"
    /\ result = CapabilityLogicError
    /\ Get(caps, "chanmodes") # None
    /\ Get(caps, "excepts") # None

\* C2: whenever CHANMODES and EXCEPTS are both set, the EXCEPTS flag is one
\* of the list-type (A) modes, and the same for INVEX.
C2_ExceptionFlagsAreListModes ==
    /\ (Get(caps, "chanmodes") # None /\ Get(caps, "excepts") # None)
          => StrIn(Get(caps, "excepts").v,
                   Get(caps, "chanmodes").v[CHANMODE_LIST])
    /\ (Get(caps, "chanmodes") # None /\ Get(caps, "invex") # None)
          => StrIn(Get(caps, "invex").v,
                   Get(caps, "chanmodes").v[CHANMODE_LIST])

\* CHANMODES accepted after EXCEPTS and INVEX were
C2_Witness ==
    /\ op = "chanmodes"
    /\ result = OK
    /\ Get(caps, "excepts") # None
    /\ Get(caps, "invex") # None

\* C3: whenever CHANMODES and MAXLIST are both set, the flags MAXLIST gives
\* limits for are exactly the list-type (A) modes.
C3_MaxlistCoversListModes ==
    (Get(caps, "chanmodes") # None /\ Get(caps, "maxlist") # None)
       => UNION (DOMAIN Get(caps, "maxlist").v)
             = Get(caps, "chanmodes").v[CHANMODE_LIST]

\* MAXLIST with two entries held together with CHANMODES
C3_Witness ==
    /\ Get(caps, "chanmodes") # None
    /\ Get(caps, "maxlist") # None
    /\ Cardinality(DOMAIN Get(caps, "maxlist").v) = 2

\* C4: after every successful assignment, every prefix set that CHANLIMIT
\* limits is a subset of the CHANTYPES in effect.
C4_ChanlimitWithinChantypes ==
    (op # "new" /\ result = OK /\ Get(caps, "chanlimit") # None)
       => \A prefixes \in DOMAIN Get(caps, "chanlimit").v :
              prefixes \subseteq Get(caps, "chantypes").v

\* CHANLIMIT accepted against a CHANTYPES the caller assigned
C4_Witness ==
    /\ op = "chanlimit"
    /\ result = OK
    /\ caps.chantypes # Absent
    /\ Get(caps, "chanlimit") # None

\* C5: a failed assignment to any capability but CHANMODES leaves the
\* instance exactly as it was.
C5_FailedSetChangesNothing ==
    [][(op' # "chanmodes" /\ result' # OK) => caps' = caps]_vars

\* EXCEPTS rejected for logic while unset
C5_Witness ==
    /\ op = "excepts"
    /\ result = CapabilityLogicError
    /\ caps.excepts = Absent

\* C6: a successful assignment changes no capability but the assigned one,
\* also when CHANMODES re-assigns EXCEPTS, INVEX and MAXLIST.
C6_SuccessfulSetChangesOneField ==
    [][result' = OK =>
          \A f \in Fields \ {op'} : Get(caps', f) = Get(caps, f)]_vars

\* CHANMODES accepted while EXCEPTS, INVEX and MAXLIST are all set
C6_Witness ==
    /\ op = "chanmodes"
    /\ result = OK
    /\ Get(caps, "excepts") # None
    /\ Get(caps, "invex") # None
    /\ Get(caps, "maxlist") # None

\* the raw value v, assigned to capability name, stands for the value the
\* capability reads as now
Denotes(self, name, v) ==
    CASE name = "casemapping" -> Val(v) = Get(self, name)
      [] name = "chanlimit" ->
           /\ EntriesParse(ChanlimitEntries(v))
           /\ Val(EntriesDict(ChanlimitEntries(v))) = Get(self, name)
      [] name = "chanmodes" ->
           /\ ChanmodesParses(v)
           /\ Val(ChanmodesDict(ChanmodesGroups(v))) = Get(self, name)
      [] name \in {"channellen", "kicklen"} ->
           /\ ParseLen(v).ok
           /\ ParseLen(v).val = Get(self, name)
      [] name = "chantypes" -> Val(CharSet(v)) = Get(self, name)
      [] name = "excepts" ->
           Val(IF v = <<>> THEN <<"e">> ELSE v) = Get(self, name)
      [] name = "invex" ->
           Val(IF v = <<>> THEN <<"I">> ELSE v) = Get(self, name)
      [] name = "maxlist" ->
           /\ v # <<>>
           /\ EntriesParse(MaxlistEntries(v))
           /\ Val(EntriesDict(MaxlistEntries(v))) = Get(self, name)

\* C8: assigning a capability a raw value that stands for the value it
\* already reads as never fails and changes nothing.
C8_ResetToCurrentValue ==
    [][Denotes(caps, op', arg')
          => (result' = OK /\ View(caps') = View(caps))]_vars

C10_CasemappingOutcomes ==
    [][op' = "casemapping"
          => /\ result' = IF arg' \in {"rfc1459", "strict-rfc1459"}
                          THEN NotImplementedError
                          ELSE IF arg' # "ascii" THEN CapabilityValueError
                          ELSE OK
             /\ NotImplementedError # CapabilityValueError
             /\ result' # OK => caps'.casemapping = caps.casemapping
             /\ result' = OK => caps'.casemapping = Val("ascii")]_vars

\* an unimplemented casemapping was rejected
C10_Witness ==
    /\ op = "casemapping"
    /\ result = NotImplementedError
    /\ arg = "strict-rfc1459"

\* the caller has replayed its whole script and every assignment succeeded
ScriptSucceeded ==
    /\ script.tokens # <<>>
    /\ script.done = Len(script.tokens)
    /\ script.ok

\* the script assigns both of the capabilities named
Assigns(n1, n2) ==
    /\ \E i \in 1..Len(script.tokens) : script.tokens[i].name = n1
    /\ \E i \in 1..Len(script.tokens) : script.tokens[i].name = n2

\* every other order of the script's tokens succeeds too and ends in the
\* same store
EveryOrderAgrees ==
    \A p \in Orders(Len(script.tokens)) :
        LET r == Replay(Reordered(script.tokens, p))
        IN  r.ok /\ View(r.self) = View(caps)

\* C7 as claimed: if the tokens of a script, on distinct capabilities, all
\* succeed in one order on a fresh store, they all succeed in every other
\* order and end in the same store.
C7_AnyOrder == ScriptSucceeded => EveryOrderAgrees

\* C7 amended: the same, for scripts that do not assign both CHANTYPES and
\* CHANLIMIT.
C7_AnyOrderWithoutPrefixPair ==
    (ScriptSucceeded /\ ~Assigns("chantypes", "chanlimit"))
       => EveryOrderAgrees

\* a script of three tokens succeeded that has CHANMODES after EXCEPTS
C7_Witness ==
    /\ ScriptSucceeded
    /\ Len(script.tokens) = 3
    /\ script.tokens[1].name = "excepts"
    /\ script.tokens[3].name = "chanmodes"
    /\ ~Assigns("chantypes", "chanlimit")

----------------------------------------------------------------------------
(* The fresh store *)

\* C11 as claimed: a fresh store reads CHANTYPES {#,&} and CHANNELLEN 200,
\* and every other capability reads as unset.
C11_FreshStoreOnlyTwoDefaults ==
    op = "new" =>
        /\ Get(caps, "chantypes") = Val({"#", "&"})
        /\ Get(caps, "channellen") = Val(200)
        /\ \A f \in Fields \ {"chantypes", "channellen"} : Get(caps, f) = None

\* C11 amended: a fresh store reads CHANTYPES {#,&}, CHANNELLEN 200 and
\* CASEMAPPING ascii, and every other capability reads as unset.
C11_FreshStoreDefaults ==
    op = "new" =>
        /\ Get(caps, "chantypes") = Val({"#", "&"})
        /\ Get(caps, "channellen") = Val(200)
        /\ Get(caps, "casemapping") = Val("ascii")
        /\ \A f \in Fields \ {"chantypes", "channellen", "casemapping"} :
               Get(caps, f) = None

\* the store nothing has been assigned to yet
C11_Witness ==
    /\ op = "new"
    /\ \A f \in Fields : caps[f] = Absent

----------------------------------------------------------------------------
(* Single assignments *)

\* the number of pieces a raw value splits into on commas
CommaPieces(v) == Len(Split(v, ","))

\* C12 as claimed: a raw CHANMODES value that splits on commas into fewer or
\* more than 4 groups ends in a format error and changes nothing.
C12_NotFourGroupsRejected ==
    [][(op' = "chanmodes" /\ CommaPieces(arg') # 4)
          => (result' = CapabilityValueError /\ caps' = caps)]_vars

\* C12 amended: a raw CHANMODES value of fewer than 4 groups ends in a format
\* error and changes nothing; one of more than 4 groups is not a format error
\* and, when accepted, stores its first 4 groups; CHANMODES, when set, always
\* has exactly 4 groups, one per kind.
C12_FewerRejectedMoreTruncated ==
    [][/\ (op' = "chanmodes" /\ CommaPieces(arg') < 4)
             => (result' = CapabilityValueError /\ caps' = caps)
       /\ (op' = "chanmodes" /\ CommaPieces(arg') > 4)
             => /\ result' # CapabilityValueError
                /\ result' = OK =>
                      \A k \in 0..3 :
                          Get(caps', "chanmodes").v[k]
                             = CharSet(Split(Strip(arg'), ",")[k + 1])
       /\ Get(caps', "chanmodes") # None
             => DOMAIN Get(caps', "chanmodes").v
                   = {CHANMODE_LIST, CHANMODE_PARAM_ALWAYS,
                      CHANMODE_PARAM_ADDONLY, CHANMODE_NO_PARAM}]_vars

\* a raw CHANMODES value of five groups was accepted
C12_Witness ==
    /\ op = "chanmodes"
    /\ CommaPieces(arg) = 5
    /\ result = OK

\* the character an EXCEPTS or INVEX raw value of length 0 or 1 stands for
FlagChar(name, v) ==
    IF v # <<>> THEN v ELSE IF name = "excepts" THEN <<"e">> ELSE <<"I">>

\* C13: an empty or one-character raw EXCEPTS or INVEX value succeeds exactly
\* when CHANMODES is unset or the (defaulted) character is a list mode;
\* otherwise it ends in a logic error and the flag keeps its value.
C13_FlagAcceptedIffListMode ==
    [][(op' \in {"excepts", "invex"} /\ Len(arg') <= 1)
          => LET c     == FlagChar(op', arg')
                 modes == Get(caps, "chanmodes")
                 fits  == modes = None \/ c[1] \in modes.v[CHANMODE_LIST]
             IN  /\ fits => (result' = OK /\ Get(caps', op') = Val(c))
                 /\ ~fits => /\ result' = CapabilityLogicError
                             /\ Get(caps', op') = Get(caps, op')]_vars

\* the default INVEX character was refused while INVEX was unset
C13_Witness ==
    /\ op = "invex"
    /\ arg = <<>>
    /\ result = CapabilityLogicError
    /\ Get(caps, "invex") = None

\* a raw MAXLIST or CHANLIMIT entry list in which every entry is key:count
WellFormed(entries) ==
    \A i \in 1..Len(entries) :
        Len(entries[i]) = 2 /\ ParseInt(entries[i][2]).ok

\* the characters of all the keys of a list of entries
KeyChars(entries) == UNION {CharSet(entries[i][1]) : i \in 1..Len(entries)}

\* C14: with CHANMODES set, a well-formed raw MAXLIST value succeeds exactly
\* when the characters of its keys are the list modes, and otherwise ends in
\* a logic error leaving MAXLIST as it was; with CHANMODES unset every
\* well-formed value is accepted.
C14_MaxlistAcceptedIffExactCover ==
    [][(op' = "maxlist" /\ arg' # <<>> /\ WellFormed(MaxlistEntries(arg')))
          => LET modes == Get(caps, "chanmodes")
                 fits  == \/ modes = None
                          \/ KeyChars(MaxlistEntries(arg'))
                                = modes.v[CHANMODE_LIST]
             IN  /\ fits => result' = OK
                 /\ ~fits => /\ result' = CapabilityLogicError
                             /\ Get(caps', "maxlist")
                                   = Get(caps, "maxlist")]_vars

\* a MAXLIST that covers only part of the list modes was refused
C14_Witness ==
    /\ op = "maxlist"
    /\ result = CapabilityLogicError
    /\ arg = <<"e", ":", "1">>
    /\ Get(caps, "chanmodes") # None
    /\ Get(caps, "chanmodes").v[CHANMODE_LIST] = {"e", "I"}

\* C15: a well-formed raw CHANLIMIT value succeeds exactly when every prefix
\* set it limits is within the CHANTYPES in effect; otherwise it ends in a
\* logic error and CHANLIMIT keeps its value.
C15_ChanlimitAcceptedIffWithinTypes ==
    [][(op' = "chanlimit" /\ WellFormed(ChanlimitEntries(arg')))
          => LET es   == ChanlimitEntries(arg')
                 fits == \A i \in 1..Len(es) :
                            CharSet(es[i][1])
                               \subseteq Get(caps, "chantypes").v
             IN  /\ fits => result' = OK
                 /\ ~fits => /\ result' = CapabilityLogicError
                             /\ Get(caps', "chanlimit")
                                   = Get(caps, "chanlimit")]_vars

\* a CHANLIMIT for a prefix outside the assigned CHANTYPES was refused
C15_Witness ==
    /\ op = "chanlimit"
    /\ result = CapabilityLogicError
    /\ caps.chantypes = Val({"#"})
    /\ Get(caps, "chanlimit") = None

\* C17: an empty raw CHANNELLEN or KICKLEN value stores None; any other
\* value succeeds only if it is a non-negative integer and ends in a format
\* error if it is not numeric, so each of the two is always None or an
\* integer >= 0.
C17_LengthsNonNegative ==
    [][op' \in {"channellen", "kicklen"}
          => /\ arg' = <<>> => (result' = OK /\ Get(caps', op') = None)
             /\ (arg' # <<>> /\ result' = OK)
                   => (ParseInt(arg').ok /\ ParseInt(arg').val >= 0)
             /\ (arg' # <<>> /\ ~ParseInt(arg').ok)
                   => result' = CapabilityValueError
             /\ \/ Get(caps', op') = None
                \/ Get(caps', op').v >= 0]_vars

\* two entries of a list carry the same key
DuplicateKey(entries) ==
    \E i, j \in 1..Len(entries) :
        i # j /\ CharSet(entries[i][1]) = CharSet(entries[j][1])

\* C18: a raw CHANLIMIT value ends in a format error, changing nothing, when
\* it is empty, has a malformed entry, has two entries with the same prefix
\* set or has a count that is not a positive integer; so every stored count
\* is >= 1 and every entry of an accepted value is in the stored mapping.
C18_ChanlimitFormat ==
    [][op' = "chanlimit"
          => LET es  == ChanlimitEntries(arg')
                 bad == \/ arg' = <<>>
                        \/ ~WellFormed(es)
                        \/ DuplicateKey(es)
                        \/ \E i \in 1..Len(es) : ParseInt(es[i][2]).val < 1
             IN  /\ bad => (result' = CapabilityValueError /\ caps' = caps)
                 /\ result' = OK =>
                       LET d == Get(caps', "chanlimit").v
                       IN  /\ \A k \in DOMAIN d : d[k] >= 1
                           /\ \A i \in 1..Len(es) :
                                 /\ CharSet(es[i][1]) \in DOMAIN d
                                 /\ d[CharSet(es[i][1])]
                                       = ParseInt(es[i][2]).val]_vars

-----------------------------------------------------------------------------
(* Resetting *)

\* C19: deleting CHANTYPES, CHANNELLEN, EXCEPTS or INVEX ends without error
\* in every reachable state, set before or not; afterwards the capability
\* reads as its fresh-store default and every other capability reads as
\* before.
C19_ResetAlwaysSucceeds ==
    [][\A f \in Resettable :
          op' = DelOp[f]
             => /\ result' = OK
                /\ Get(caps', f) = ClassAttr[f]
                /\ \A g \in Fields \ {f} : Get(caps', g) = Get(caps, g)]_vars

-----------------------------------------------------------------------------
(* Readers during the rollback sequence *)

\* C16: once an assignment to CHANMODES has ended, every value a reader got
\* from CHANMODES since it began is the value committed before the call or
\* the value committed after it; no reader ever got a tentative value that
\* was then reverted.
C16_ReadersSeeOnlyCommitted ==
    frame.pc = "idle"
       => \A x \in seen : \/ x = frame.oldmodes
                          \/ x = Get(caps, "chanmodes")

====
